---- MODULE Spec2Model ----
(***************************************************************************)
(* A model of supervised_reptile/reptile.py: the task and mini-batch       *)
(* samplers (_sample_mini_dataset, _sample_mini_dataset_with_replacements, *)
(* _mini_batches, _split_train_test), Reptile.train_step, FOML.train_step  *)
(* and Reptile.evaluate.                                                   *)
(*                                                                         *)
(* An example of a task is a record [pos, src, label]: src is the          *)
(* ClassSource it was drawn from, label its class index, and pos the place *)
(* it had in the sampled task, which stands for the identity of the Python *)
(* object.  Parameter values are exact rationals <<n, d>>.                 *)
(***************************************************************************)
EXTENDS Integers, Sequences, FiniteSets, TLC

\* ------------------------------------------------------------ bounds
\* The longest list of samples handed to _mini_batches on its own.
MaxSamples == 3
\* The largest num_batches handed to _mini_batches on its own.
MaxBatches == 2
\* The cap on batch_count, which the code lets grow without bound.
MaxYield == 3
\* The longest task handed to _split_train_test on its own.
MaxTask == 4
\* The largest test_shots handed to _split_train_test on its own.
MaxTestShots == 2
\* The largest dataset, num_classes and num_shots of the samplers on their own.
MaxSources == 3
MaxSampleClasses == 3
MaxSampleShots == 2
\* The most draws (num_classes * num_shots) of the sampler with replacement.
MaxDraws == 4

\* The largest inner_iters and meta_batch_size of a train_step or evaluate call.
MaxInnerIters == 2
MaxMetaBatch == 2
\* The most evaluate calls of one run.
MaxEvalCalls == 2

\* batch_size / inner_batch_size.
BatchSizes == {1, 2}
\* (num_classes, num_shots) of a train_step call.
TrainShapes == {<<1, 2>>, <<2, 2>>}
\* FOML's tail_shots when it is not None (written 0).
TailShots == {1}
\* The values a parameter takes after an optimization step, and at the start.
ParamVals == {0, 1}
\* (num_classes, num_shots) of an evaluate call, and its dataset: two
\* ClassSources.
EvalShapes == {<<0, 1>>, <<1, 0>>, <<1, 1>>, <<2, 1>>}
EvalDataset == <<1, 2>>
\* The dataset of a train_step call: one ClassSource, drawn with replacement.
TrainDataset == <<1>>
\* The labels of the tasks handed to _split_train_test on its own.
SplitLabels == {0, 1, 2}

\* ------------------------------------------------------------ helpers
Range(s) == {s[j] : j \in DOMAIN s}

\* The sequences of k elements of s taken at k distinct places of s.
InjSeqs(s, k) ==
    IF k > Len(s) THEN {}
    ELSE {[j \in 1..k |-> s[f[j]]] :
            f \in {h \in [1..k -> DOMAIN s] :
                     \A a, b \in 1..k : a # b => h[a] # h[b]}}

\* random.shuffle: any order of the list.
Shuffles(s) == InjSeqs(s, Len(s))

\* ------------------------------------------------------------ _mini_batches
\* A generator object of _mini_batches that has not run yet: the body runs
\* from the top at the first next().
NewGen(samples, batch_size, num_batches, replacement) ==
    [samples |-> samples, batch_size |-> batch_size,
     num_batches |-> num_batches, replacement |-> replacement,
     pc |-> "start", i |-> 0, cur_batch |-> <<>>, batch_count |-> 0,
     out |-> <<>>]

\* samples = list(samples); if replacement: ...; cur_batch = []; batch_count = 0
MBStart(g) ==
    IF g.pc # "start" THEN {}
    ELSE IF g.replacement
         THEN {[g EXCEPT !.pc = "rloop", !.i = 0]}
         ELSE {[g EXCEPT !.pc = "shuffle", !.cur_batch = <<>>,
                         !.batch_count = 0]}

\* for _ in range(num_batches): yield random.sample(samples, batch_size); return
\* random.sample raises ValueError when batch_size exceeds the population.
MBReplacement(g) ==
    IF g.pc # "rloop" THEN {}
    ELSE IF g.i >= g.num_batches THEN {[g EXCEPT !.pc = "done"]}
    ELSE IF g.batch_size > Len(g.samples) THEN {[g EXCEPT !.pc = "raised"]}
    ELSE {[g EXCEPT !.pc = "yielded", !.out = b] :
            b \in InjSeqs(g.samples, g.batch_size)}

\* while True: random.shuffle(samples); for sample in samples:
MBShuffle(g) ==
    IF g.pc # "shuffle" THEN {}
    ELSE {[g EXCEPT !.samples = s, !.i = 0, !.pc = "loop"] :
            s \in Shuffles(g.samples)}

\* The mutant of MBLoop: the batch is yielded without the test of its size.
MBLoopMissingSizeTest(g) ==
    IF g.pc # "loop" THEN {}
    ELSE IF g.i = Len(g.samples) THEN {[g EXCEPT !.pc = "shuffle"]}
    ELSE LET cur == Append(g.cur_batch, g.samples[g.i + 1])
         IN  {[g EXCEPT !.i = g.i + 1, !.cur_batch = cur,
                        !.pc = "yielded", !.out = cur]}

\* The mutant of MBLoop: a batch left unfinished at the end of a shuffle is
\* dropped, so that every batch is a chunk of one shuffle.
MBLoopDropsPartial(g) ==
    IF g.pc # "loop" THEN {}
    ELSE IF g.i = Len(g.samples)
         THEN {[g EXCEPT !.pc = "shuffle", !.cur_batch = <<>>]}
    ELSE LET cur == Append(g.cur_batch, g.samples[g.i + 1])
         IN  IF Len(cur) < g.batch_size
             THEN {[g EXCEPT !.i = g.i + 1, !.cur_batch = cur]}
             ELSE {[g EXCEPT !.i = g.i + 1, !.cur_batch = cur,
                             !.pc = "yielded", !.out = cur]}

\* One turn of the for loop: append, and yield once the batch is full.  When
\* the list is exhausted the while loop shuffles again.
MBLoop(g) ==
    IF g.pc # "loop" THEN {}
    ELSE IF g.i = Len(g.samples) THEN {[g EXCEPT !.pc = "shuffle"]}
    ELSE LET cur == Append(g.cur_batch, g.samples[g.i + 1])
         IN  IF Len(cur) < g.batch_size
             THEN {[g EXCEPT !.i = g.i + 1, !.cur_batch = cur]}
             ELSE {[g EXCEPT !.i = g.i + 1, !.cur_batch = cur,
                             !.pc = "yielded", !.out = cur]}

\* The code after a yield, run by the next next(): the range loop's next turn,
\* or cur_batch = []; batch_count += 1; if batch_count == num_batches: return
MBResume(g) ==
    IF g.pc # "yielded" THEN {}
    ELSE IF g.replacement THEN {[g EXCEPT !.pc = "rloop", !.i = g.i + 1]}
    ELSE IF g.batch_count >= MaxYield THEN {}
    ELSE {[g EXCEPT !.cur_batch = <<>>, !.batch_count = g.batch_count + 1,
                    !.pc = IF g.batch_count + 1 = g.num_batches
                           THEN "done" ELSE "loop"]}

\* One step of the generator's body.
MBNext(g) ==
    MBStart(g) \cup MBReplacement(g) \cup MBShuffle(g) \cup MBLoop(g)
        \cup MBResume(g)

\* ------------------------------------------------------------ variables.py
\* Parameter values are rationals <<n, d>> in lowest terms, d > 0.
Abs(x) == IF x < 0 THEN -x ELSE x

RECURSIVE Gcd(_, _)
Gcd(a, b) == IF b = 0 THEN a ELSE Gcd(b, a % b)

Norm(n, d) == LET g == Gcd(Abs(n), d) IN <<n \div g, d \div g>>
RInt(n) == <<n, 1>>
RAdd(a, b) == Norm(a[1] * b[2] + b[1] * a[2], a[2] * b[2])
RSub(a, b) == Norm(a[1] * b[2] - b[1] * a[2], a[2] * b[2])
RMul(a, b) == Norm(a[1] * b[1], a[2] * b[2])
RDivInt(a, n) == Norm(a[1], a[2] * n)

\* meta_step_size.
MetaStepSizes == {<<0, 1>>, <<1, 2>>, <<1, 1>>}

add_vars(a, b) == [k \in DOMAIN a |-> RAdd(a[k], b[k])]
subtract_vars(a, b) == [k \in DOMAIN a |-> RSub(a[k], b[k])]
scale_vars(a, t) == [k \in DOMAIN a |-> RMul(a[k], t)]

\* interpolate(a, b, t) = a + t * (b - a)
interpolate_vars(old, new, t) ==
    add_vars(old, scale_vars(subtract_vars(new, old), t))

RECURSIVE SumVars(_)
SumVars(list) ==
    IF Len(list) = 1 THEN list[1] ELSE add_vars(list[1], SumVars(Tail(list)))

\* The elementwise mean of a non-empty list of snapshots.
average_vars(list) ==
    LET total == SumVars(list)
    IN  [k \in DOMAIN total |-> RDivInt(total[k], Len(list))]

\* The variables of self._model_state and of self._full_state.
TrainableVars == {"w"}
GlobalVars == {"w", "bn"}

\* VariableState.export_variables / import_variables over a scope of the live
\* state.
ExportVariables(live, scope) == [k \in scope |-> live[k]]
ImportVariables(live, values) ==
    [k \in DOMAIN live |-> IF k \in DOMAIN values THEN values[k] ELSE live[k]]

\* What one run of pre_step_op and minimize_op may leave in the live state:
\* any values of the trainable and of the auxiliary variables.
StepOutcomes == [GlobalVars -> {RInt(v) : v \in ParamVals}]

\* ------------------------------------------------------------ task sampling
\* class_obj.sample(n): a sequence of n inputs of the ClassSource; an input is
\* written as the ClassSource it came from.
ClassSample(class_obj, n) == [j \in 1..n |-> class_obj]

WithPos(task) ==
    [j \in DOMAIN task |->
        [pos |-> j, src |-> task[j].src, label |-> task[j].label]]

\* The mutant of SampleClasses: class_idx is not advanced.
RECURSIVE SampleClassesSameIdx(_, _, _)
SampleClassesSameIdx(classes, class_idx, num_shots) ==
    IF classes = <<>> THEN <<>>
    ELSE LET drawn == ClassSample(Head(classes), num_shots)
         IN  [j \in 1..Len(drawn) |-> [src |-> drawn[j], label |-> class_idx]]
                 \o SampleClassesSameIdx(Tail(classes), class_idx, num_shots)

\* for class_idx, class_obj in enumerate(...):
\*     for sample in class_obj.sample(num_shots): yield (sample, class_idx)
RECURSIVE SampleClasses(_, _, _)
SampleClasses(classes, class_idx, num_shots) ==
    IF classes = <<>> THEN <<>>
    ELSE LET drawn == ClassSample(Head(classes), num_shots)
         IN  [j \in 1..Len(drawn) |-> [src |-> drawn[j], label |-> class_idx]]
                 \o SampleClasses(Tail(classes), class_idx + 1, num_shots)

\* shuffled[:num_classes], for num_classes >= 0.
Prefix(s, n) == SubSeq(s, 1, IF n < Len(s) THEN n ELSE Len(s))

\* _sample_mini_dataset after random.shuffle(shuffled), consumed as a list.
sample_mini_dataset(shuffled, num_classes, num_shots) ==
    WithPos(SampleClasses(Prefix(shuffled, num_classes), 0, num_shots))

\* random.choices(shuffled, k): k draws with replacement; IndexError on an
\* empty population when k > 0.
Choices(shuffled, k) == [1..k -> Range(shuffled)]

\* The mutant of sample_mini_dataset_with_replacements: class_idx is not
\* reduced modulo num_classes.
sample_mini_dataset_with_replacementsNoModulo(choices, num_classes) ==
    WithPos([j \in 1..Len(choices) |->
                [src |-> ClassSample(choices[j], 1)[1], label |-> j - 1]])

\* _sample_mini_dataset_with_replacements after the draws `choices` were made:
\* one shot per draw, labelled class_idx % num_classes.
sample_mini_dataset_with_replacements(choices, num_classes) ==
    WithPos([j \in 1..Len(choices) |->
                [src |-> ClassSample(choices[j], 1)[1],
                 label |-> (j - 1) % num_classes]])

\* ------------------------------------------------------------ _split_train_test
LabelsOf(samples) == {samples[j].label : j \in DOMAIN samples}

\* Iteration over set(item[1] for item in train_set): CPython walks a set of
\* small non-negative ints in ascending order.
RECURSIVE SetOrder(_)
SetOrder(S) ==
    IF S = {} THEN <<>>
    ELSE LET m == CHOOSE x \in S : \A y \in S : x <= y
         IN  <<m>> \o SetOrder(S \ {m})

RemoveAt(s, i) == SubSeq(s, 1, i - 1) \o SubSeq(s, i + 1, Len(s))

\* The mutant of FirstIndex: the last example of the label is taken.
LastIndex(s, label) ==
    LET hits == {j \in DOMAIN s : s[j].label = label}
    IN  IF hits = {} THEN 0 ELSE CHOOSE j \in hits : \A h \in hits : h <= j

\* for i, item in enumerate(train_set): if item[1] == label: ... break
\* The index (from 1) of the first example of the label, 0 when none is left.
FirstIndex(s, label) ==
    LET hits == {j \in DOMAIN s : s[j].label = label}
    IN  IF hits = {} THEN 0 ELSE CHOOSE j \in hits : \A h \in hits : j <= h

\* for label in labels: del train_set[i]; test_set.append(item)
RECURSIVE SplitRound(_, _)
SplitRound(st, labels) ==
    IF labels = <<>> THEN st
    ELSE LET i == FirstIndex(st.train, Head(labels))
         IN  SplitRound(IF i = 0 THEN st
                        ELSE [train |-> RemoveAt(st.train, i),
                              test |-> Append(st.test, st.train[i])],
                        Tail(labels))

\* for _ in range(test_shots):
RECURSIVE SplitRounds(_, _, _)
SplitRounds(st, labels, n) ==
    IF n <= 0 THEN st ELSE SplitRounds(SplitRound(st, labels), labels, n - 1)

\* _split_train_test(samples, test_shots): raises IndexError when the test set
\* came out short.
split_train_test(samples, test_shots) ==
    LET labels == SetOrder(LabelsOf(samples))
        st == SplitRounds([train |-> samples, test |-> <<>>], labels, test_shots)
    IN  IF Len(st.test) < Len(labels) * test_shots
        THEN [raised |-> TRUE, train |-> <<>>, test |-> <<>>]
        ELSE [raised |-> FALSE, train |-> st.train, test |-> st.test]

\* ------------------------------------------------------------ FOML._mini_batches
\* The mutant of FOMLInnerSamples: the tail is not taken out of the task.
FOMLInnerSamplesWholeTask(mini_dataset, sp) == mini_dataset

\* The samples FOML._mini_batches hands to _mini_batches once the tail is
\* reserved: train of train, tail = _split_train_test(mini_dataset, tail_shots)
FOMLInnerSamples(mini_dataset, sp) == sp.train

\* What a step of a batch iterator does to its consumer.
Event(g) ==
    CASE g.pc = "yielded" -> "yield"
      [] g.pc = "done" -> "stop"
      [] g.pc = "raised" -> "raise"
      [] OTHER -> "run"

\* One step of _mini_batches iterated directly (Reptile.train_step, evaluate).
DirectNext(w, g) ==
    {[wrap |-> w, gen |-> g2, ev |-> Event(g2), batch |-> g2.out] :
        g2 \in MBNext(g)}

\* One step of the generator FOML._mini_batches.  c is the frame of the
\* train_step that iterates it; w.pc is where the wrapper stands.
FOMLNext(w, g, c) ==
    CASE w.pc = "start" ->
            IF c.tail_shots = 0
            THEN {[wrap |-> [w EXCEPT !.pc = "delegate"],
                   gen |-> NewGen(c.mini_dataset, c.inner_batch_size,
                                  c.inner_iters, c.replacement),
                   ev |-> "run", batch |-> <<>>]}
            ELSE LET sp == split_train_test(c.mini_dataset, c.tail_shots)
                 IN  IF sp.raised
                     THEN {[wrap |-> w, gen |-> g, ev |-> "raise",
                            batch |-> <<>>]}
                     ELSE {[wrap |-> [pc |-> "inner", tail |-> sp.test],
                            gen |-> NewGen(FOMLInnerSamples(c.mini_dataset, sp),
                                           c.inner_batch_size,
                                           c.inner_iters - 1, c.replacement),
                            ev |-> "run", batch |-> <<>>]}
      [] w.pc = "delegate" -> DirectNext(w, g)
      [] w.pc = "inner" ->
            {IF g2.pc = "done"
             THEN [wrap |-> [w EXCEPT !.pc = "tail"], gen |-> g2,
                   ev |-> "run", batch |-> <<>>]
             ELSE [wrap |-> w, gen |-> g2, ev |-> Event(g2), batch |-> g2.out] :
                g2 \in MBNext(g)}
      [] w.pc = "tail" ->
            {[wrap |-> [w EXCEPT !.pc = "tail_yielded"], gen |-> g,
              ev |-> "yield", batch |-> w.tail]}
      [] w.pc = "tail_yielded" ->
            {[wrap |-> [w EXCEPT !.pc = "done"], gen |-> g, ev |-> "stop",
              batch |-> <<>>]}
      [] OTHER -> {}

\* ------------------------------------------------------------ train_step
NoBackup == [k \in {} |-> <<0, 1>>]

\* The mutant of FOMLLastBackup: the backup is taken before the first step of
\* a task only.
FOMLLastBackupFirstStep(steps, last_backup, live) ==
    IF steps = 0 THEN ExportVariables(live, TrainableVars) ELSE last_backup

\* last_backup = self._model_state.export_variables(), before every step;
\* steps is the number of steps the task has run.
FOMLLastBackup(steps, last_backup, live) ==
    ExportVariables(live, TrainableVars)

\* The mutant of ReptileTaskEnd: the export follows the restore.
ReptileTaskEndExportLate(live, old_vars, new_vars) ==
    LET restored == ImportVariables(live, old_vars)
    IN  [acc |-> Append(new_vars, ExportVariables(restored, TrainableVars)),
         live |-> restored]

\* new_vars.append(self._model_state.export_variables())
\* self._model_state.import_variables(old_vars)
ReptileTaskEnd(live, old_vars, new_vars) ==
    [acc |-> Append(new_vars, ExportVariables(live, TrainableVars)),
     live |-> ImportVariables(live, old_vars)]

\* The mutant of FOMLTaskEnd: the model is not restored to old_vars.
FOMLTaskEndNoRestore(live, old_vars, updates, last_backup) ==
    [acc |-> Append(updates,
                    subtract_vars(ExportVariables(live, TrainableVars),
                                  last_backup)),
     live |-> live]

\* updates.append(subtract_vars(export_variables(), last_backup))
\* self._model_state.import_variables(old_vars)
FOMLTaskEnd(live, old_vars, updates, last_backup) ==
    [acc |-> Append(updates,
                    subtract_vars(ExportVariables(live, TrainableVars),
                                  last_backup)),
     live |-> ImportVariables(live, old_vars)]

\* The mutant of ReptileMetaUpdate: old and average change places.
ReptileMetaUpdateSwapped(old_vars, new_vars, meta_step_size) ==
    interpolate_vars(average_vars(new_vars), old_vars, meta_step_size)

\* interpolate_vars(old_vars, average_vars(new_vars), meta_step_size)
ReptileMetaUpdate(old_vars, new_vars, meta_step_size) ==
    interpolate_vars(old_vars, average_vars(new_vars), meta_step_size)

\* The mutant of FOMLMetaUpdate: the update is interpolated, not added.
FOMLMetaUpdateInterpolated(old_vars, updates, meta_step_size) ==
    interpolate_vars(old_vars, average_vars(updates), meta_step_size)

\* add_vars(old_vars, scale_vars(average_vars(updates), meta_step_size))
FOMLMetaUpdate(old_vars, updates, meta_step_size) ==
    add_vars(old_vars, scale_vars(average_vars(updates), meta_step_size))

\* ------------------------------------------------------------ evaluate
\* The mutant of EvalExport: the snapshot is taken of the trainable scope.
EvalExportTrainable(live) == ExportVariables(live, TrainableVars)

\* old_vars = self._full_state.export_variables()
EvalExport(live) == ExportVariables(live, GlobalVars)

\* self._full_state.import_variables(old_vars)
EvalRestore(live, old_vars) == ImportVariables(live, old_vars)

\* train_augmetation: the batch as given, then augment(inputs) once in each of
\* the three turns of the loop, every copy with the labels of the batch.
\* aug is 0 for the example as sampled and the turn (1..3) for a copy.
Copy(batch, n) ==
    [j \in DOMAIN batch |->
        [pos |-> batch[j].pos, src |-> batch[j].src, label |-> batch[j].label,
         aug |-> n]]

\* The mutant of AugmentedBatch: the loop makes two augmented copies.
AugmentedBatchTwoCopies(batch) ==
    Copy(batch, 0) \o Copy(batch, 1) \o Copy(batch, 2)

\* augmented_images and augmented_labels after the loop, flattened: what the
\* one minimize_op run of train_augmetation is fed.
AugmentedBatch(batch) ==
    Copy(batch, 0) \o Copy(batch, 1) \o Copy(batch, 2) \o Copy(batch, 3)

\* inputs, _ = zip(*samples): the inputs of the examples, each written as the
\* position of its example.
InputsOf(samples) == [j \in DOMAIN samples |-> samples[j].pos]

\* zip(*samples) of an empty list gives nothing to unpack: ValueError.  In
\* transductive mode test_set is unpacked, otherwise train_set, once for each
\* test example.
PredictUnpackFails(transductive, train_set, test_set) ==
    IF transductive THEN test_set = <<>>
    ELSE test_set # <<>> /\ train_set = <<>>

\* The number of session.run(predictions) calls of _test_predictions.
PredictCalls(transductive, test_set) ==
    IF transductive THEN 1 ELSE Len(test_set)

\* The mutant of PredictFeed: every call is fed the training inputs and all
\* the test inputs.
PredictFeedAllTests(transductive, train_set, test_set, n) ==
    IF transductive THEN InputsOf(test_set)
    ELSE InputsOf(train_set) \o InputsOf(test_set)

\* The inputs fed to the n-th session.run(predictions): all the test inputs,
\* or the training inputs followed by the n-th test input.
PredictFeed(transductive, train_set, test_set, n) ==
    IF transductive THEN InputsOf(test_set)
    ELSE Append(InputsOf(train_set), test_set[n].pos)

\* What session.run(predictions) may return: one label for each input fed.
PredictOutcomes(inputs, num_classes) ==
    [DOMAIN inputs -> 0..(num_classes - 1)]

\* The mutant of PredictKeep: the whole output of every call is kept.
PredictKeepAll(transductive, output) == output

\* What _test_predictions keeps of the output of one call: all of it, or
\* res.append(...[-1]).
PredictKeep(transductive, output) ==
    IF transductive THEN output ELSE <<output[Len(output)]>>

\* sum([pred == sample[1] for pred, sample in zip(test_preds, test_set)])
NumCorrect(test_preds, test_set) ==
    Cardinality({j \in DOMAIN test_preds \cap DOMAIN test_set :
                    test_preds[j] = test_set[j].label})

VARIABLES gen, yielded, split, smp, model, call, wrap, hist

vars == <<gen, yielded, split, smp, model, call, wrap, hist>>

\* The values of the variables a specification does not use.
NoGen == NewGen(<<>>, 0, 0, FALSE)
NoSplit == [pc |-> "none"]
NoSmp == [pc |-> "none"]
IdleMB == gen = NoGen /\ yielded = 0
IdleSplit == split = NoSplit
IdleSmp == smp = NoSmp
NoModel == [k \in GlobalVars |-> <<0, 1>>]
NoCall == [pc |-> "none"]
NoWrap == [pc |-> "none", tail |-> <<>>]
NoHist == [calls |-> 0]
IdleSession ==
    model = NoModel /\ call = NoCall /\ wrap = NoWrap /\ hist = NoHist

\* The examples of a list given to _mini_batches on its own.
PlainSamples(n) == [j \in 1..n |-> [pos |-> j, src |-> 1, label |-> 0]]

\* ------------------------------------------------------------ SpecMB
\* _mini_batches on its own, driven by a consumer that takes every batch.
InitMB ==
    /\ \E n \in 0..MaxSamples, bs \in BatchSizes, nb \in 0..MaxBatches,
          r \in BOOLEAN :
          /\ gen = NewGen(PlainSamples(n), bs, nb, r)
          /\ hist = [calls |-> 0, used |-> [p \in 1..n |-> 0]]
    /\ yielded = 0
    /\ IdleSplit /\ IdleSmp
    /\ model = NoModel /\ call = NoCall /\ wrap = NoWrap

\* The number of places of the batch that hold the example of position p.
TimesIn(batch, p) == Cardinality({j \in DOMAIN batch : batch[j].pos = p})

\* The consumer takes what the generator's step gave: a yielded batch is
\* counted, and so is every appearance of a sample position in it.
MBTake(g) ==
    /\ gen' = g
    /\ yielded' = IF g.pc = "yielded" THEN yielded + 1 ELSE yielded
    /\ hist' = IF g.pc = "yielded"
               THEN [hist EXCEPT
                       !.used = [p \in DOMAIN @ |-> @[p] + TimesIn(g.out, p)]]
               ELSE hist
    /\ UNCHANGED <<split, smp, model, call, wrap>>

MBStartAct == \E g \in MBStart(gen) : MBTake(g)
MBReplacementAct == \E g \in MBReplacement(gen) : MBTake(g)
MBShuffleAct == \E g \in MBShuffle(gen) : MBTake(g)
MBLoopAct == \E g \in MBLoop(gen) : MBTake(g)
MBResumeAct == \E g \in MBResume(gen) : MBTake(g)

NextMB ==
    \/ MBStartAct
    \/ MBReplacementAct
    \/ MBShuffleAct
    \/ MBLoopAct
    \/ MBResumeAct

SpecMB == InitMB /\ [][NextMB]_vars

\* C7: for non-empty samples, batch_size >= 1 and num_batches >= 0, in both
\* replacement modes, _mini_batches raises nothing, never yields more than
\* num_batches batches, yields only batches of batch_size elements of samples,
\* and has yielded exactly num_batches batches when it returns.
C7_ExactlyNumBatches ==
    (Len(gen.samples) >= 1 /\ gen.batch_size >= 1 /\ gen.num_batches >= 0) =>
        /\ gen.pc # "raised"
        /\ yielded <= gen.num_batches
        /\ gen.pc = "yielded" =>
              /\ Len(gen.out) = gen.batch_size
              /\ Range(gen.out) \subseteq Range(gen.samples)
        /\ gen.pc = "done" => yielded = gen.num_batches

\* C14: in no-replacement mode, with samples free of duplicates and
\* batch_size <= len(samples), no yielded batch holds the same sample twice.
C14_NoDuplicateInBatch ==
    (~gen.replacement /\ gen.pc = "yielded"
        /\ gen.batch_size <= Len(gen.samples)) =>
        \A a, b \in DOMAIN gen.out :
            a # b => gen.out[a].pos # gen.out[b].pos

\* C15: in no-replacement mode with fewer samples than batch_size no batch is
\* ever yielded and the generator does not return normally: the call ends
\* with a configuration error.
C15_TooFewSamplesIsAnError ==
    (~gen.replacement /\ Len(gen.samples) < gen.batch_size) =>
        /\ yielded = 0
        /\ gen.pc \notin {"yielded", "done"}

\* C16: in replacement mode, whenever a batch is about to be drawn, every
\* sequence of batch_size elements of samples, repeats included, is a batch
\* the draw can give, and the draw does not fail, batch_size > len(samples)
\* included.
C16_AnySequenceIsPossible ==
    (gen.replacement /\ gen.pc = "rloop" /\ gen.i < gen.num_batches
        /\ Len(gen.samples) >= 1) =>
        /\ \A g \in MBReplacement(gen) : g.pc = "yielded"
        /\ {g.out : g \in MBReplacement(gen)}
              = {[j \in 1..gen.batch_size |-> gen.samples[f[j]]] :
                    f \in [1..gen.batch_size -> DOMAIN gen.samples]}

\* C17: in no-replacement mode, at every point of the run, the numbers of
\* appearances of any two sample positions in the batches yielded so far
\* differ by at most 1.
C17_BalancedUse ==
    ~gen.replacement =>
        \A p, q \in DOMAIN hist.used : hist.used[p] - hist.used[q] <= 1

\* Three samples in batches of two: the second batch was completed across a
\* reshuffle, and after the third every sample has appeared twice.
C17_Witness ==
    /\ ~gen.replacement /\ gen.pc = "yielded"
    /\ Len(gen.samples) = 3 /\ gen.batch_size = 2
    /\ yielded = 3
    /\ \A p \in DOMAIN hist.used : hist.used[p] = 2

\* ------------------------------------------------------------ SpecSplit
\* _split_train_test on its own, on every short task over SplitLabels.
InitSplit ==
    /\ \E n \in 0..MaxTask, k \in 0..MaxTestShots :
       \E labels \in [1..n -> SplitLabels] :
          split = [pc |-> "call", test_shots |-> k,
                   samples |-> [j \in 1..n |->
                                  [pos |-> j, src |-> 1, label |-> labels[j]]],
                   train |-> <<>>, test |-> <<>>]
    /\ IdleMB /\ IdleSmp /\ IdleSession

SplitCall ==
    /\ split.pc = "call"
    /\ LET r == split_train_test(split.samples, split.test_shots)
       IN  split' = [split EXCEPT !.pc = IF r.raised THEN "raised" ELSE "returned",
                                  !.train = r.train, !.test = r.test]
    /\ UNCHANGED <<gen, yielded, smp, model, call, wrap, hist>>

NextSplit == SplitCall

SpecSplit == InitSplit /\ [][NextSplit]_vars

PosOf(s) == {s[j].pos : j \in DOMAIN s}

\* The places of the first k examples of each label of the task.
FirstK(task, k) ==
    {j \in DOMAIN task :
        Cardinality({h \in 1..j : task[h].label = task[j].label}) <= k}

EnoughOfEachLabel(task, k) ==
    \A l \in LabelsOf(task) :
        Cardinality({j \in DOMAIN task : task[j].label = l}) >= k

\* C8: split_task(task, k) returns exactly when every label of the task has at
\* least k examples and raises otherwise; on return the held-out portion is the
\* first k examples of each label (exactly k per label), the training portion
\* is the task without them in the original order, and no example is in both.
C8_SplitCorrect ==
    split.pc \in {"returned", "raised"} =>
        LET task == split.samples
            k == split.test_shots
            held == FirstK(task, k)
        IN  /\ (split.pc = "returned") <=> EnoughOfEachLabel(task, k)
            /\ split.pc = "returned" =>
                  /\ PosOf(split.test) = held
                  /\ Len(split.test) = Cardinality(held)
                  /\ \A j \in DOMAIN split.test :
                        split.test[j] = task[split.test[j].pos]
                  /\ \A l \in LabelsOf(task) :
                        Cardinality({j \in DOMAIN split.test :
                                        split.test[j].label = l}) = k
                  /\ split.train = SelectSeq(task, LAMBDA e : e.pos \notin held)
                  /\ PosOf(split.train) \cap PosOf(split.test) = {}

\* A split of a task of four examples with two labels: one held out of each,
\* two left for training.
C8_Witness ==
    /\ split.pc = "returned"
    /\ split.test_shots = 1
    /\ Cardinality(LabelsOf(split.samples)) = 2
    /\ Len(split.test) = 2
    /\ Len(split.train) = 2

\* ------------------------------------------------------------ SpecSample
\* The task samplers on their own: a dataset of n ClassSources 1..n.
InitSample ==
    /\ \E n \in 0..MaxSources, c \in 0..MaxSampleClasses,
          s \in 0..MaxSampleShots, fn \in {"plain", "replacements"} :
          /\ fn = "replacements" => c * s <= MaxDraws
          /\ smp = [pc |-> "call", fn |-> fn, dataset |-> [j \in 1..n |-> j],
                    num_classes |-> c, num_shots |-> s,
                    shuffled |-> <<>>, task |-> <<>>]
    /\ IdleMB /\ IdleSplit /\ IdleSession

\* list(_sample_mini_dataset(dataset, num_classes, num_shots))
SampleTask ==
    /\ smp.pc = "call" /\ smp.fn = "plain"
    /\ \E sh \in Shuffles(smp.dataset) :
          smp' = [smp EXCEPT
                    !.pc = "returned", !.shuffled = sh,
                    !.task = sample_mini_dataset(sh, smp.num_classes,
                                                 smp.num_shots)]
    /\ UNCHANGED <<gen, yielded, split, model, call, wrap, hist>>

\* list(_sample_mini_dataset_with_replacements(dataset, num_classes, num_shots))
SampleTaskWithReplacements ==
    /\ smp.pc = "call" /\ smp.fn = "replacements"
    /\ LET k == smp.num_classes * smp.num_shots
       IN  IF smp.dataset = <<>> /\ k > 0
           THEN smp' = [smp EXCEPT !.pc = "raised"]
           ELSE \E sh \in Shuffles(smp.dataset) :
                \E ch \in Choices(sh, k) :
                   smp' = [smp EXCEPT
                             !.pc = "returned", !.shuffled = ch,
                             !.task = sample_mini_dataset_with_replacements(
                                          ch, smp.num_classes)]
    /\ UNCHANGED <<gen, yielded, split, model, call, wrap, hist>>

NextSample ==
    \/ SampleTask
    \/ SampleTaskWithReplacements

SpecSample == InitSample /\ [][NextSample]_vars

\* C9: on a dataset with at least C ClassSources, sample_task(dataset, C, S)
\* yields C*S pairs, S of each label 0..C-1, the pairs of label i all from the
\* i-th ClassSource of the shuffled order, and the C ClassSources are distinct.
C9_SampleTaskShape ==
    (smp.pc = "returned" /\ smp.fn = "plain"
        /\ Len(smp.dataset) >= smp.num_classes) =>
        /\ Len(smp.task) = smp.num_classes * smp.num_shots
        /\ \A j \in DOMAIN smp.task :
              /\ smp.task[j].label \in 0..(smp.num_classes - 1)
              /\ smp.task[j].src = smp.shuffled[smp.task[j].label + 1]
        /\ \A l \in 0..(smp.num_classes - 1) :
              Cardinality({j \in DOMAIN smp.task : smp.task[j].label = l})
                  = smp.num_shots
        /\ \A a, b \in 1..smp.num_classes :
              a # b => smp.shuffled[a] # smp.shuffled[b]

\* A task of two classes and two shots from a dataset of three ClassSources.
C9_Witness ==
    /\ smp.pc = "returned" /\ smp.fn = "plain"
    /\ Len(smp.dataset) = 3 /\ smp.num_classes = 2 /\ smp.num_shots = 2
    /\ Len(smp.task) = 4

\* C10: sample_task never returns when the dataset has fewer ClassSources than
\* num_classes (it fails with an error instead), so a returned task with shots
\* has all num_classes labels.
C10_FailsOnTooFewClasses ==
    (smp.pc = "returned" /\ smp.fn = "plain") =>
        /\ Len(smp.dataset) >= smp.num_classes
        /\ smp.num_shots >= 1 =>
              Cardinality(LabelsOf(smp.task)) = smp.num_classes

\* C11: on a non-empty dataset sample_task_with_class_replacement(dataset, C, S)
\* returns; it made exactly C*S draws of a ClassSource of the dataset, the j-th
\* example is one shot of the j-th draw labelled j mod C (j from 0), so the
\* task has C*S examples and exactly S examples of every label in 0..C-1.
C11_ReplacementTaskShape ==
    (smp.pc # "call" /\ smp.fn = "replacements" /\ Len(smp.dataset) >= 1) =>
        /\ smp.pc = "returned"
        /\ Len(smp.shuffled) = smp.num_classes * smp.num_shots
        /\ Range(smp.shuffled) \subseteq Range(smp.dataset)
        /\ Len(smp.task) = smp.num_classes * smp.num_shots
        /\ \A j \in DOMAIN smp.task :
              /\ smp.task[j].src = smp.shuffled[j]
              /\ smp.task[j].label = (j - 1) % smp.num_classes
        /\ \A l \in 0..(smp.num_classes - 1) :
              Cardinality({j \in DOMAIN smp.task : smp.task[j].label = l})
                  = smp.num_shots

\* A task of two classes and two shots in which one ClassSource backs both
\* labels and another is drawn too.
C11_Witness ==
    /\ smp.pc = "returned" /\ smp.fn = "replacements"
    /\ smp.num_classes = 2 /\ smp.num_shots = 2
    /\ Len(smp.task) = 4
    /\ smp.task[1].src = smp.task[2].src
    /\ smp.task[3].src # smp.task[1].src

\* ------------------------------------------------------------ SpecTrain
\* One call of Reptile.train_step or FOML.train_step on a model in any state.
Trainable(live) == ExportVariables(live, TrainableVars)

InitTrain ==
    /\ model \in {m \in StepOutcomes : m["bn"] = RInt(0)}
    /\ call = [pc |-> "idle", op |-> "none"]
    /\ wrap = NoWrap
    /\ hist = NoHist
    /\ IdleMB /\ IdleSplit /\ IdleSmp

\* old_vars = self._model_state.export_variables(); new_vars = [] / updates = []
\* op is the class of self; tail_shots is 0 for None.
TrainStart ==
    /\ call.pc = "idle"
    /\ \E op \in {"reptile", "foml"}, ts \in {0} \cup TailShots,
          shape \in TrainShapes, bs \in BatchSizes,
          it \in 0..MaxInnerIters, r \in BOOLEAN, mb \in 0..MaxMetaBatch :
          /\ op = "reptile" => ts = 0
          /\ call' = [pc |-> "task", op |-> op, tail_shots |-> ts,
                      num_classes |-> shape[1], num_shots |-> shape[2],
                      inner_batch_size |-> bs, inner_iters |-> it,
                      replacement |-> r, meta_batch_size |-> mb,
                      meta_step_size |-> <<0, 1>>,
                      old_vars |-> Trainable(model), acc |-> <<>>,
                      last_backup |-> NoBackup, tasks |-> 0,
                      mini_dataset |-> <<>>, batch |-> <<>>]
    /\ hist' = [calls |-> 0, entry |-> Trainable(model), steps |-> 0,
                used |-> {}, pre |-> Trainable(model),
                post |-> Trainable(model), finals |-> <<>>, deltas |-> <<>>]
    /\ UNCHANGED <<gen, yielded, split, smp, model, wrap>>

\* for _ in range(meta_batch_size): mini_dataset = _sample_mini_dataset_with_
\* replacements(...), and the batch iterator of the task is made.
TrainTask ==
    /\ call.pc = "task"
    /\ call.tasks < call.meta_batch_size
    /\ \E sh \in Shuffles(TrainDataset) :
       \E ch \in Choices(sh, call.num_classes * call.num_shots) :
          LET md == sample_mini_dataset_with_replacements(ch, call.num_classes)
          IN  /\ call' = [call EXCEPT !.pc = "next", !.mini_dataset = md]
              /\ IF call.op = "reptile"
                 THEN /\ gen' = NewGen(md, call.inner_batch_size,
                                       call.inner_iters, call.replacement)
                      /\ wrap' = [pc |-> "direct", tail |-> <<>>]
                 ELSE /\ gen' = NoGen
                      /\ wrap' = [pc |-> "start", tail |-> <<>>]
    /\ hist' = [hist EXCEPT !.steps = 0, !.used = {}]
    /\ UNCHANGED <<yielded, split, smp, model>>

\* for batch in ...: one step of the batch iterator, up to its next batch, its
\* end or its exception.
TrainNextBatch ==
    /\ call.pc = "next"
    /\ \E r \in IF call.op = "reptile" THEN DirectNext(wrap, gen)
                ELSE FOMLNext(wrap, gen, call) :
          /\ gen' = r.gen
          /\ wrap' = r.wrap
          /\ call' = [call EXCEPT
                        !.pc = CASE r.ev = "yield" -> "step"
                                 [] r.ev = "stop" -> "task_end"
                                 [] r.ev = "raise" -> "raised"
                                 [] OTHER -> "next",
                        !.batch = IF r.ev = "yield" THEN r.batch ELSE @]
          /\ hist' = [hist EXCEPT
                        !.used = IF r.ev = "yield" /\ hist.steps > 0
                                       /\ call.tail_shots > 0
                                 THEN @ \cup PosOf(call.batch) ELSE @,
                        !.finals = IF r.ev = "stop" /\ call.op = "reptile"
                                   THEN Append(@, Trainable(model)) ELSE @]
    /\ UNCHANGED <<yielded, split, smp, model>>

\* The body of the for loop: last_backup (FOML), pre_step_op and minimize_op.
TrainStep ==
    /\ call.pc = "step"
    /\ \E m \in StepOutcomes :
          /\ model' = m
          /\ hist' = [hist EXCEPT
                        !.steps = @ + 1,
                        !.pre = IF call.op = "foml" THEN Trainable(model) ELSE @,
                        !.post = IF call.op = "foml" THEN Trainable(m) ELSE @]
    /\ call' = [call EXCEPT
                  !.pc = "next",
                  !.last_backup =
                      IF call.op = "foml"
                      THEN FOMLLastBackup(hist.steps, @, model) ELSE @]
    /\ UNCHANGED <<gen, yielded, split, smp, wrap>>

\* After the for loop: the task's result is recorded and the model restored.
\* FOML reads last_backup, which is unbound when no step has run.
TrainTaskEnd ==
    /\ call.pc = "task_end"
    /\ IF call.op = "foml" /\ call.last_backup = NoBackup
       THEN /\ call' = [call EXCEPT !.pc = "raised"]
            /\ UNCHANGED <<model, hist>>
       ELSE LET r == IF call.op = "reptile"
                     THEN ReptileTaskEnd(model, call.old_vars, call.acc)
                     ELSE FOMLTaskEnd(model, call.old_vars, call.acc,
                                      call.last_backup)
            IN  /\ model' = r.live
                /\ call' = [call EXCEPT !.pc = "task", !.acc = r.acc,
                                        !.tasks = @ + 1]
                /\ hist' = [hist EXCEPT
                              !.deltas =
                                  IF call.op = "foml"
                                  THEN Append(@, subtract_vars(hist.post,
                                                               hist.pre))
                                  ELSE @]
    /\ UNCHANGED <<gen, yielded, split, smp, wrap>>

\* After the outer loop: average_vars (which needs a non-empty list) and the
\* import of the meta-update.  meta_step_size is read here only.
TrainMeta ==
    /\ call.pc = "task"
    /\ call.tasks >= call.meta_batch_size
    /\ IF call.acc = <<>>
       THEN /\ call' = [call EXCEPT !.pc = "raised"]
            /\ UNCHANGED model
       ELSE \E t \in MetaStepSizes :
              /\ model' = ImportVariables(model,
                              IF call.op = "reptile"
                              THEN ReptileMetaUpdate(call.old_vars, call.acc, t)
                              ELSE FOMLMetaUpdate(call.old_vars, call.acc, t))
              /\ call' = [call EXCEPT !.pc = "done", !.meta_step_size = t]
    /\ UNCHANGED <<gen, yielded, split, smp, wrap, hist>>

NextTrain ==
    \/ TrainStart
    \/ TrainTask
    \/ TrainNextBatch
    \/ TrainStep
    \/ TrainTaskEnd
    \/ TrainMeta

SpecTrain == InitTrain /\ [][NextTrain]_vars

Half == <<1, 2>>
Zero == <<0, 1>>

\* C2: when Reptile.train_step returns (meta_batch_size >= 1), the live
\* trainable state is interpolate(old, avg, meta_step_size), with old the
\* trainable state at entry and avg the mean of the meta_batch_size trainable
\* states reached at the end of each task's inner loop.
C2_ReptileInterpolates ==
    (call.pc = "done" /\ call.op = "reptile") =>
        /\ call.meta_batch_size >= 1
        /\ Len(hist.finals) = call.meta_batch_size
        /\ Trainable(model) =
              interpolate_vars(hist.entry, average_vars(hist.finals),
                               call.meta_step_size)

\* A Reptile step over two tasks that ended in different states, at
\* meta_step_size 1/2.
C2_Witness ==
    /\ call.pc = "done" /\ call.op = "reptile"
    /\ call.meta_batch_size = 2 /\ call.meta_step_size = Half
    /\ hist.finals[1] # hist.finals[2]
    /\ Trainable(model) # hist.entry

\* C3: when Reptile.train_step returns with meta_step_size = 0, the live
\* trainable state is the trainable state at entry.
C3_ZeroStepKeepsModel ==
    (call.pc = "done" /\ call.op = "reptile" /\ call.meta_step_size = Zero) =>
        Trainable(model) = hist.entry

\* A Reptile step at meta_step_size 0 whose two tasks, of two inner steps
\* each, both left the entry state.
C3_Witness ==
    /\ call.pc = "done" /\ call.op = "reptile" /\ call.meta_step_size = Zero
    /\ call.meta_batch_size = 2 /\ call.inner_iters = 2
    /\ \A j \in 1..2 : hist.finals[j] # hist.entry

\* C4: in Reptile.train_step and FOML.train_step, when the first optimization
\* step of a task is about to run, the live trainable state is the state at
\* entry to train_step.
C4_TasksStartFromOld ==
    (call.pc = "step" /\ hist.steps = 0) => Trainable(model) = hist.entry

\* The first step of FOML's second task, after a first task that left the
\* entry state.
C4_Witness ==
    /\ call.pc = "step" /\ hist.steps = 0
    /\ call.op = "foml" /\ call.tasks = 1
    /\ hist.post # hist.entry

\* C5: FOML.train_step records for each task the delta of its last inner step
\* (state after the last step minus state just before it), and when it returns
\* the live trainable state is old + meta_step_size * mean of those deltas.
C5_FOMLLastStepDelta ==
    call.op = "foml" =>
        /\ call.acc = hist.deltas
        /\ call.pc = "done" =>
              /\ Len(hist.deltas) = call.meta_batch_size
              /\ Trainable(model) =
                    add_vars(hist.entry,
                             scale_vars(average_vars(hist.deltas),
                                        call.meta_step_size))

\* A FOML step over two tasks of two inner steps whose last steps moved the
\* model differently, at meta_step_size 1/2.
C5_Witness ==
    /\ call.pc = "done" /\ call.op = "foml"
    /\ call.inner_iters = 2 /\ call.meta_batch_size = 2
    /\ call.meta_step_size = Half
    /\ hist.deltas[1] # hist.deltas[2]
    /\ Trainable(model) # hist.entry

\* C6: with tail_shots set, the batch of a task's final inner step shares no
\* example with the batches of the task's earlier steps, and holds exactly
\* tail_shots examples of every label of the task.
C6_TailBatchDisjoint ==
    (call.pc = "task_end" /\ call.tail_shots > 0) =>
        /\ PosOf(call.batch) \cap hist.used = {}
        /\ Len(call.batch) =
              call.tail_shots * Cardinality(LabelsOf(call.mini_dataset))
        /\ \A l \in LabelsOf(call.mini_dataset) :
              Cardinality({j \in DOMAIN call.batch : call.batch[j].label = l})
                  = call.tail_shots

\* The end of a task of two labels whose tail step followed a step on both
\* of the other examples.
C6_Witness ==
    /\ call.pc = "task_end" /\ call.tail_shots > 0
    /\ hist.steps >= 2
    /\ Cardinality(hist.used) = 2
    /\ Cardinality(LabelsOf(call.mini_dataset)) = 2

\* C18: with tail_shots set and inner_iters >= 1, a task of FOML.train_step
\* never runs more than inner_iters steps, and its loop ends after exactly
\* inner_iters steps, the last of them on the reserved tail batch.
C18_ExactlyInnerItersSteps ==
    (call.op = "foml" /\ call.pc \in {"next", "step", "task_end"}
        /\ call.tail_shots > 0 /\ call.inner_iters >= 1) =>
        /\ hist.steps <= call.inner_iters
        /\ call.pc = "task_end" =>
              /\ hist.steps = call.inner_iters
              /\ call.batch = wrap.tail

\* ------------------------------------------------------------ SpecEval
\* Any number of calls of Reptile.evaluate on one session; self._transductive
\* is fixed when the session is made.
InitEval ==
    /\ model \in StepOutcomes
    /\ \E tr \in BOOLEAN :
          call = [pc |-> "idle", op |-> "none", transductive |-> tr]
    /\ wrap = NoWrap
    /\ hist = [calls |-> 0, first |-> model, moved |-> {}]
    /\ IdleMB /\ IdleSplit /\ IdleSmp

\* train_set, test_set = _split_train_test(_sample_mini_dataset(dataset,
\* num_classes, num_shots + 1)); old_vars = export; the batch iterator is made.
EvalStart ==
    /\ call.pc = "idle"
    /\ hist.calls < MaxEvalCalls
    /\ \E shape \in EvalShapes, bs \in BatchSizes, it \in 0..MaxInnerIters,
          r \in BOOLEAN, aug \in BOOLEAN, sh \in Shuffles(EvalDataset) :
          LET task == sample_mini_dataset(sh, shape[1], shape[2] + 1)
              sp == split_train_test(task, 1)
          IN  IF sp.raised
              THEN /\ call' = [pc |-> "raised", op |-> "evaluate",
                               transductive |-> call.transductive]
                   /\ UNCHANGED gen
              ELSE /\ call' = [pc |-> "next", op |-> "evaluate",
                               transductive |-> call.transductive,
                               num_classes |-> shape[1],
                               num_shots |-> shape[2],
                               inner_batch_size |-> bs, inner_iters |-> it,
                               replacement |-> r, augment |-> aug,
                               old_vars |-> EvalExport(model),
                               train_set |-> sp.train, test_set |-> sp.test,
                               batch |-> <<>>, fed |-> <<>>, steps |-> 0,
                               predicts |-> <<>>, output |-> <<>>,
                               test_preds |-> <<>>, num_correct |-> 0]
                   /\ gen' = NewGen(sp.train, bs, it, r)
    /\ wrap' = [pc |-> "direct", tail |-> <<>>]
    /\ hist' = [hist EXCEPT !.moved = {}]
    /\ UNCHANGED <<yielded, split, smp, model>>

\* for batch in _mini_batches(train_set, ...): one step of the generator.
EvalNextBatch ==
    /\ call.op = "evaluate" /\ call.pc = "next"
    /\ \E r \in DirectNext(wrap, gen) :
          /\ gen' = r.gen
          /\ call' = [call EXCEPT
                        !.pc = CASE r.ev = "yield" -> "step"
                                 [] r.ev = "stop" -> "predict"
                                 [] r.ev = "raise" -> "raised"
                                 [] OTHER -> "next",
                        !.batch = IF r.ev = "yield" THEN r.batch ELSE @]
    /\ UNCHANGED <<yielded, split, smp, model, wrap, hist>>

\* The body of the loop: one run of pre_step_op and minimize_op, on the batch
\* or, with augment, on the batch train_augmetation builds.
EvalStep ==
    /\ call.op = "evaluate" /\ call.pc = "step"
    /\ \E m \in StepOutcomes : model' = m
    /\ call' = [call EXCEPT
                  !.pc = "next",
                  !.steps = @ + 1,
                  !.fed = IF call.augment THEN AugmentedBatch(call.batch)
                          ELSE call.batch]
    /\ UNCHANGED <<gen, yielded, split, smp, wrap, hist>>

\* session.run of pre_step_op or minimize_op raises: the exception leaves
\* evaluate, with whatever the failed run had written to the live state.
EvalStepFails ==
    /\ call.op = "evaluate" /\ call.pc = "step"
    /\ \E m \in StepOutcomes : model' = m
    /\ call' = [call EXCEPT !.pc = "raised"]
    /\ UNCHANGED <<gen, yielded, split, smp, wrap, hist>>

\* test_preds = self._test_predictions(...): one session.run(predictions),
\* whatever the model answers; after the last one, num_correct is summed.
EvalPredict ==
    /\ call.op = "evaluate" /\ call.pc = "predict"
    /\ LET n == Len(call.predicts) + 1
           calls == PredictCalls(call.transductive, call.test_set)
       IN  IF PredictUnpackFails(call.transductive, call.train_set,
                                 call.test_set)
           THEN call' = [call EXCEPT !.pc = "raised"]
           ELSE IF calls = 0
           THEN call' = [call EXCEPT
                           !.pc = "restore",
                           !.num_correct = NumCorrect(<<>>, call.test_set)]
           ELSE LET inputs == PredictFeed(call.transductive, call.train_set,
                                          call.test_set, n)
                IN  \E output \in PredictOutcomes(inputs, call.num_classes) :
                       LET preds == call.test_preds
                                      \o PredictKeep(call.transductive, output)
                       IN  call' = [call EXCEPT
                                      !.pc = IF n >= calls THEN "restore"
                                             ELSE "predict",
                                      !.predicts = Append(@, inputs),
                                      !.output = output,
                                      !.test_preds = preds,
                                      !.num_correct =
                                          IF n >= calls
                                          THEN NumCorrect(preds, call.test_set)
                                          ELSE @]
    /\ UNCHANGED <<gen, yielded, split, smp, model, wrap, hist>>

\* session.run(predictions) raises: the exception leaves evaluate.
EvalPredictFails ==
    /\ call.op = "evaluate" /\ call.pc = "predict"
    /\ ~PredictUnpackFails(call.transductive, call.train_set, call.test_set)
    /\ PredictCalls(call.transductive, call.test_set) > 0
    /\ call' = [call EXCEPT !.pc = "raised"]
    /\ UNCHANGED <<gen, yielded, split, smp, model, wrap, hist>>

\* self._full_state.import_variables(old_vars); return num_correct.  The
\* frame and its generator are dropped.
EvalReturn ==
    /\ call.op = "evaluate" /\ call.pc = "restore"
    /\ model' = EvalRestore(model, call.old_vars)
    /\ call' = [pc |-> "idle", op |-> "none",
                transductive |-> call.transductive]
    /\ hist' = [hist EXCEPT
                  !.calls = @ + 1,
                  !.moved = {k \in GlobalVars : model[k] # hist.first[k]}]
    /\ gen' = NoGen
    /\ wrap' = NoWrap
    /\ UNCHANGED <<yielded, split, smp>>

NextEval ==
    \/ EvalStart
    \/ EvalNextBatch
    \/ EvalStep
    \/ EvalStepFails
    \/ EvalPredict
    \/ EvalPredictFails
    \/ EvalReturn

SpecEval == InitEval /\ [][NextEval]_vars

\* C1: after any sequence of evaluate calls that return, the full live state
\* (trainable and auxiliary) is the state before the first call.
C1_EvaluateLeavesNoTrace ==
    call.pc = "idle" => model = hist.first

\* The return of a second evaluate call whose inner steps had moved both the
\* trainable and the auxiliary variable.
C1_Witness ==
    /\ call.pc = "idle"
    /\ hist.calls = 2
    /\ hist.moved = GlobalVars

\* C12: when evaluate is about to return, its count is between 0 and
\* num_classes: the test portion holds exactly one example of every label of
\* the task, at most num_classes of them, and there is exactly one prediction
\* for each, in transductive and in non-transductive mode.
C12_CountWithinClasses ==
    (call.op = "evaluate" /\ call.pc = "restore") =>
        /\ call.num_correct \in 0..call.num_classes
        /\ Len(call.test_set) <= call.num_classes
        /\ \A l \in LabelsOf(call.train_set) \cup LabelsOf(call.test_set) :
              Cardinality({j \in DOMAIN call.test_set :
                              call.test_set[j].label = l}) = 1
        /\ Len(call.test_preds) = Len(call.test_set)
        /\ call.num_correct =
              Cardinality({j \in DOMAIN call.test_set :
                              call.test_preds[j] = call.test_set[j].label})

\* A non-transductive evaluation of two classes with both test examples
\* predicted right, after an inner step.
C12_Witness ==
    /\ call.op = "evaluate" /\ call.pc = "restore"
    /\ ~call.transductive
    /\ call.num_classes = 2 /\ call.num_correct = 2
    /\ call.steps >= 1

\* C13: whenever control has gone back to the caller of evaluate, by a return
\* or by an exception of an inner step or of a predict call, the full live
\* state is the snapshot taken at the start of the call.
C13_RestoredOnEveryExit ==
    /\ call.pc = "idle" => model = hist.first
    /\ (call.op = "evaluate" /\ call.pc = "raised"
            /\ "old_vars" \in DOMAIN call) =>
          \A k \in GlobalVars : model[k] = call.old_vars[k]

\* C19: every predict call of evaluate comes after the last inner step and
\* before the restore.  In transductive mode there is exactly one, on all the
\* test inputs at once.  In non-transductive mode there is exactly one for each
\* test example, on the inputs of the whole training portion followed by that
\* test example alone, and the prediction kept is the last one returned.
C19_PredictCalls ==
    (call.op = "evaluate" /\ "predicts" \in DOMAIN call) =>
        /\ (call.pc \in {"next", "step"}) => call.predicts = <<>>
        /\ call.predicts # <<>> =>
              /\ call.pc \in {"predict", "restore", "raised"}
              /\ gen.pc = "done"
        /\ (call.pc = "restore" /\ call.transductive) =>
              call.predicts = <<InputsOf(call.test_set)>>
        /\ (call.pc \in {"predict", "restore"} /\ ~call.transductive) =>
              /\ Len(call.predicts) <= Len(call.test_set)
              /\ call.pc = "restore" =>
                    Len(call.predicts) = Len(call.test_set)
              /\ \A n \in DOMAIN call.predicts :
                    /\ call.predicts[n]
                          = InputsOf(call.train_set) \o <<call.test_set[n].pos>>
                    /\ Cardinality({j \in DOMAIN call.predicts[n] :
                           call.predicts[n][j] \in PosOf(call.test_set)}) = 1
              /\ call.predicts # <<>> =>
                    call.test_preds[Len(call.test_preds)]
                        = call.output[Len(call.output)]

\* A non-transductive evaluation about to restore: two inner steps, then two
\* predict calls, each on the two training inputs and one test input.
C19_Witness ==
    /\ call.op = "evaluate" /\ call.pc = "restore"
    /\ ~call.transductive
    /\ call.steps = 2
    /\ Len(call.train_set) = 2
    /\ Len(call.predicts) = 2
    /\ Len(call.predicts[2]) = 3

\* The batches the iterator of evaluate has yielded, read when the last one
\* has just been stepped on.
EvalBatchesTaken ==
    (IF gen.replacement THEN gen.i ELSE gen.batch_count) + 1

====
